---- MODULE Spec2Model ----
(***************************************************************************)
(* Model of WebAclAuthorizer (src/src/authorization/WebAclAuthorizer.ts):  *)
(* the Web Access Control authorizer of the community server.              *)
(*                                                                         *)
(* One authorization check is one call of handle().  Its awaits are the    *)
(* steps of the model: aclManager.getAcl, resourceStore.getRepresentation, *)
(* the stream import of filterData, aclManager.isAcl, and then the         *)
(* synchronous evaluation of the modes.  The collaborators (AclManager,    *)
(* ResourceStore) are the environment: each call's answer is drawn from a  *)
(* bounded set.  The fields of handle's input are drawn at the step that   *)
(* first reads them (identifier at line 42, credentials and permissions at *)
(* lines 44-48): they are immutable, so this is the same set of runs.      *)
(***************************************************************************)
EXTENDS Naturals, Sequences, FiniteSets, TLC

\* ------------------------------------------------------------------ bounds
\* Depth of the deepest identifier below the root container.
MaxDepth == 2
\* Largest number of quads in one ACL document.
MaxTriples == 3
\* Number of handle() invocations the model has room for.
NumChecks == 2

Checks == 1..NumChecks

\* ------------------------------------------------------------- vocabulary
\* Terms are sequences of strings: an IRI is a one-element sequence, the path
\* of an identifier is the sequence of its segments after the base "/".
ACL_accessTo == "acl:accessTo"
ACL_default == "acl:default"
ACL_mode == "acl:mode"
ACL_agentClass == "acl:agentClass"
ACL_agent == "acl:agent"
FOAF_Agent == <<"foaf:Agent">>
ACL_AuthenticatedAgent == <<"acl:AuthenticatedAgent">>

\* ACL[name]: the vocabulary lookup of line 63.
ACL(name) ==
  CASE name = "Read" -> <<"acl:Read">>
    [] name = "Write" -> <<"acl:Write">>
    [] name = "Append" -> <<"acl:Append">>
    [] name = "Control" -> <<"acl:Control">>

\* capitalize (lines 83-85) on the mode names of a PermissionSet.
capitalize(mode) ==
  CASE mode = "read" -> "Read"
    [] mode = "write" -> "Write"
    [] mode = "append" -> "Append"
    [] mode = "control" -> "Control"

\* Keys of a PermissionSet in their declared order.
PermissionKeys == <<"read", "write", "append", "control">>
KeySet == {PermissionKeys[i] : i \in 1..Len(PermissionKeys)}
PermissionSets == [KeySet -> BOOLEAN]

\* Credentials: webID is a string or undefined.
Undefined == <<>>
WebIDs == {<<"https://example.org/alice">>, <<"https://example.org/bob">>}
CredentialsSet == [webID : WebIDs \cup {Undefined}]

\* ------------------------------------------------------------ identifiers
Root == <<"/">>
\* The identifiers of one branch of the namespace: the root container and the
\* resources below it, one per depth.
Ids == {[i \in 1..(d + 1) |-> IF i = 1 THEN "/" ELSE "a"] : d \in 0..MaxDepth}

IsRoot(id) == Len(id) = 1
\* getParentContainer: strips the final path segment (defined below the root).
getParentContainer(id) == SubSeq(id, 1, Len(id) - 1)
\* What getParentContainer raises at the root container.
RootReachedError == "RootReachedError"

\* ---------------------------------------------------------- ACL documents
Subjects == {"auth1", "auth2"}
ScopeStatements == {<<p, id>> : p \in {ACL_accessTo, ACL_default}, id \in Ids}
ModeStatements == {<<ACL_mode, ACL(capitalize(k))>> : k \in KeySet}
GrantStatements == {<<ACL_agentClass, FOAF_Agent>>,
                    <<ACL_agentClass, ACL_AuthenticatedAgent>>,
                    <<ACL_agent, <<"https://example.org/alice">>>>}
Quads == {[subject |-> s, predicate |-> po[1], object |-> po[2]] :
            s \in Subjects,
            po \in ScopeStatements \cup ModeStatements \cup GrantStatements}

RECURSIVE QuadSetsUpTo(_)
QuadSetsUpTo(n) ==
  IF n = 0 THEN {{}}
  ELSE LET smaller == QuadSetsUpTo(n - 1)
       IN smaller \cup {d \cup {q} : d \in smaller, q \in Quads}
\* Documents of two entities with the same scope statement, of which one
\* carries a mode statement and the other a grant statement.
SplitDocuments ==
  {{[subject |-> "auth1", predicate |-> sc[1], object |-> sc[2]],
    [subject |-> "auth2", predicate |-> sc[1], object |-> sc[2]],
    [subject |-> ab[1], predicate |-> m[1], object |-> m[2]],
    [subject |-> ab[2], predicate |-> g[1], object |-> g[2]]} :
     sc \in ScopeStatements, m \in ModeStatements, g \in GrantStatements,
     ab \in {<<"auth1", "auth2">>, <<"auth2", "auth1">>}}
\* The ACL documents the resource store can hold.
Documents == QuadSetsUpTo(MaxTriples) \cup SplitDocuments

\* Errors a collaborator call can fail with.
NotFoundHttpError == "NotFoundHttpError"
Errors == {NotFoundHttpError, "InternalServerError", "ConflictHttpError"}
Ok == "ok"

\* ------------------------------------------------------------------ state
VARIABLES
  world,        \* the ACL state the collaborators answer from, where it is fixed
  active,       \* the checks that are issued
  pc,           \* pc[c]: the await handle() of check c is at
  target,       \* input.identifier
  id,           \* the id parameter of the current getAclRecursive call
  recurse,      \* the recurse parameter of the current getAclRecursive call
  data,         \* the quads of the representation being imported
  store,        \* the store returned by getAclRecursive
  aclTarget,    \* the answer of aclManager.isAcl(input.identifier)
  credentials,  \* input.credentials
  permissions,  \* input.permissions
  calls,        \* log: the collaborator calls made, in order, and their results
  evaluated,    \* log: the modes checkPermission was called with, in order
  outcome       \* how handle() ended

vars == <<world, active, pc, target, id, recurse, data, store, aclTarget,
          credentials, permissions, calls, evaluated, outcome>>

NoOutcome == [kind |-> "none", mode |-> ""]
Success == [kind |-> "success", mode |-> ""]
Failure(error) == [kind |-> error, mode |-> ""]
Denial(error, mode) == [kind |-> error, mode |-> mode]

\* One entry of the log: the call op made for identifier i by the
\* getAclRecursive call with the given recurse flag (FALSE for isAcl).
Call(op, i, rec, result) == [op |-> op, id |-> i, recurse |-> rec, result |-> result]
Logged(c, op, result) ==
  calls' = [calls EXCEPT ![c] = Append(@, Call(op, id[c], recurse[c], result))]

\* ---------------------------------------------------- Permission Evaluator
\* Variant: the authenticated-agent class is tested before the webID.
hasAccessClassFirst(agent, auth, st) ==
  \/ [subject |-> auth, predicate |-> ACL_agentClass, object |-> FOAF_Agent] \in st
  \/ [subject |-> auth, predicate |-> ACL_agentClass,
      object |-> ACL_AuthenticatedAgent] \in st
  \/ /\ agent.webID # Undefined
     /\ [subject |-> auth, predicate |-> ACL_agent, object |-> agent.webID] \in st
\* hasAccess (lines 95-106).
hasAccess(agent, auth, st) ==
  IF [subject |-> auth, predicate |-> ACL_agentClass, object |-> FOAF_Agent] \in st
  THEN TRUE
  ELSE IF agent.webID = Undefined
  THEN FALSE
  ELSE IF [subject |-> auth, predicate |-> ACL_agentClass,
           object |-> ACL_AuthenticatedAgent] \in st
  THEN TRUE
  ELSE [subject |-> auth, predicate |-> ACL_agent, object |-> agent.webID] \in st

\* Variant: the mode and the access may come from different authorizations.
isModeGrantedAnySubject(st, agent, mode) ==
  /\ \E x \in st : x.predicate = ACL_mode /\ x.object = ACL(capitalize(mode))
  /\ \E term \in {q.subject : q \in st} : hasAccess(agent, term, st)
\* Lines 63-65: some authorization with the mode gives the agent access.
isModeGranted(st, agent, mode) ==
  LET modeString == ACL(capitalize(mode))
      auths == {q.subject : q \in {x \in st : x.predicate = ACL_mode /\ x.object = modeString}}
  IN \E term \in auths : hasAccess(agent, term, st)

\* Variant: the two errors swapped.
DenialKindSwapped(agent) ==
  IF agent.webID # Undefined THEN "UnauthorizedHttpError" ELSE "ForbiddenHttpError"
\* Lines 66-73: the error thrown for the agent when access is not allowed.
DenialKind(agent) ==
  LET isLoggedIn == agent.webID # Undefined
  IN IF isLoggedIn THEN "ForbiddenHttpError" ELSE "UnauthorizedHttpError"

\* checkPermission (lines 62-75): Ok, or the error it throws.
checkPermission(agent, st, mode) ==
  IF ~isModeGranted(st, agent, mode) THEN DenialKind(agent) ELSE Ok

\* Variant: every key is checked, requested or not.
RECURSIVE forEachKeyUnfiltered(_, _, _, _)
forEachKeyUnfiltered(keys, perms, agent, st) ==
  IF keys = <<>> THEN [evaluated |-> <<>>, result |-> Ok]
  ELSE LET key == Head(keys)
           r == checkPermission(agent, st, key)
       IN IF r # Ok
          THEN [evaluated |-> <<key>>, result |-> r]
          ELSE LET rest == forEachKeyUnfiltered(Tail(keys), perms, agent, st)
               IN [evaluated |-> <<key>> \o rest.evaluated, result |-> rest.result]
\* The forEach of lines 46-50 over the keys: the modes checkPermission is
\* called with, in order, and the first error thrown (which ends the loop).
RECURSIVE forEachKey(_, _, _, _)
forEachKey(keys, perms, agent, st) ==
  IF keys = <<>> THEN [evaluated |-> <<>>, result |-> Ok]
  ELSE LET key == Head(keys)
       IN IF perms[key]
          THEN LET r == checkPermission(agent, st, key)
               IN IF r # Ok
                  THEN [evaluated |-> <<key>>, result |-> r]
                  ELSE LET rest == forEachKey(Tail(keys), perms, agent, st)
                       IN [evaluated |-> <<key>> \o rest.evaluated,
                           result |-> rest.result]
          ELSE forEachKey(Tail(keys), perms, agent, st)

\* Variant: the requested modes are checked whatever the target.
checkModesIgnoringAcl(isAcl, perms, agent, st) ==
  forEachKey(PermissionKeys, perms, agent, st)
\* Variant: the keys are visited last to first.
checkModesReversed(isAcl, perms, agent, st) ==
  IF isAcl
  THEN [evaluated |-> <<"control">>, result |-> checkPermission(agent, st, "control")]
  ELSE forEachKey([i \in 1..Len(PermissionKeys) |->
                     PermissionKeys[Len(PermissionKeys) + 1 - i]], perms, agent, st)
\* Lines 43-51: the branch on isAcl.
checkModes(isAcl, perms, agent, st) ==
  IF isAcl
  THEN [evaluated |-> <<"control">>, result |-> checkPermission(agent, st, "control")]
  ELSE forEachKey(PermissionKeys, perms, agent, st)

\* ------------------------------------------------------ Policy Store Reader
\* Lines 153-158: the quads of the data stream are added to a new Store.
importStream(stream) == {stream[i] : i \in 1..Len(stream)}

\* Variant: only the first matching subject is kept.
filterDataFirstOnly(quads, predicate, object) ==
  LET auths == {q.subject : q \in {x \in quads : x.predicate = predicate /\ x.object = object}}
  IN IF auths = {} THEN {}
     ELSE {q \in quads : q.subject = CHOOSE a \in auths : TRUE}
\* Variant: only the matching statements are kept, not the whole entities.
filterDataMatchesOnly(quads, predicate, object) ==
  {x \in quads : x.predicate = predicate /\ x.object = object}
\* filterData (lines 152-164) on the imported quads.
filterData(quads, predicate, object) ==
  LET auths == {q.subject : q \in {x \in quads : x.predicate = predicate /\ x.object = object}}
  IN UNION {{q \in quads : q.subject = subject} : subject \in auths}

\* Variant: the default relation whatever the probe.
ScopePredicateAlwaysDefault(rec) == ACL_default
\* Line 124: the predicate filterData is called with.
ScopePredicate(rec) == IF rec THEN ACL_default ELSE ACL_accessTo

\* -------------------------------------------------------------- ACL state
\* What the collaborators answer for the ACL resource of one identifier.
Absent == [getAcl |-> Ok, getRepresentation |-> NotFoundHttpError, import |-> Ok, data |-> {}]
Present(doc) == [getAcl |-> Ok, getRepresentation |-> Ok, import |-> Ok, data |-> doc]
Broken == [getAcl |-> Ok, getRepresentation |-> "InternalServerError", import |-> Ok, data |-> {}]
Unreadable == [getAcl |-> Ok, getRepresentation |-> Ok, import |-> "ConflictHttpError", data |-> {}]
\* An ACL document of one authorization.
AclDocument(i, predicate, mode, grant, agent) ==
  {[subject |-> "auth1", predicate |-> predicate, object |-> i],
   [subject |-> "auth1", predicate |-> ACL_mode, object |-> ACL(capitalize(mode))],
   [subject |-> "auth1", predicate |-> grant, object |-> agent]}
AclStates(i) ==
  {Present(AclDocument(i, ACL_accessTo, "read", ACL_agentClass, FOAF_Agent)),
   Present(AclDocument(i, ACL_default, "control", ACL_agent, <<"https://example.org/alice">>)),
   Broken, Unreadable}
\* No identifier has an ACL resource.
NoAcls == [acl |-> [i \in Ids |-> Absent], isAcl |-> FALSE]
\* The ACL states: at most one identifier has an ACL resource, and isAcl
\* answers the same for every target.
Worlds ==
  {[acl |-> [i \in Ids |-> Absent], isAcl |-> b] : b \in BOOLEAN}
  \cup UNION {{[acl |-> [i \in Ids |-> IF i = s THEN a ELSE Absent], isAcl |-> b] :
                 a \in AclStates(s), b \in BOOLEAN} : s \in Ids}

\* ------------------------------------------------------------ ACL Resolver
\* handle() of check c ends with this outcome.
Ends(c, result) ==
  /\ pc' = [pc EXCEPT ![c] = "done"]
  /\ outcome' = [outcome EXCEPT ![c] = result]

\* An error leaves getAclRecursive and handle (line 130, or a rejection that
\* no catch block sees).
Throws(c, error) ==
  /\ Ends(c, Failure(error))
  /\ UNCHANGED <<id, recurse>>

\* Variant: the recursive call is made with the same identifier.
TraverseRetry(c) ==
  /\ id' = id
  /\ recurse' = [recurse EXCEPT ![c] = TRUE]
  /\ pc' = [pc EXCEPT ![c] = "getAcl"]
  /\ UNCHANGED outcome
\* Lines 134-136: the walk goes to the parent container.
Traverse(c) ==
  IF IsRoot(id[c])
  THEN Throws(c, RootReachedError)
  ELSE /\ id' = [id EXCEPT ![c] = getParentContainer(id[c])]
       /\ recurse' = [recurse EXCEPT ![c] = TRUE]
       /\ pc' = [pc EXCEPT ![c] = "getAcl"]
       /\ UNCHANGED outcome

\* Variant: the catch block swallows every error.
CaughtSwallowsAll(c, error) == Traverse(c)
\* The catch block of lines 125-132, and what follows it.
Caught(c, error) ==
  IF error = NotFoundHttpError THEN Traverse(c) ELSE Throws(c, error)

\* Variant: handle asks isAcl before it resolves the ACL.
StartWithIsAcl(c) ==
  /\ c \in active
  /\ pc[c] = "idle"
  /\ \E t \in Ids :
       /\ target' = [target EXCEPT ![c] = t]
       /\ id' = [id EXCEPT ![c] = t]
  /\ recurse' = [recurse EXCEPT ![c] = FALSE]
  /\ pc' = [pc EXCEPT ![c] = "isAcl"]
  /\ UNCHANGED <<world, active, data, store, aclTarget, credentials, permissions,
                 calls, evaluated, outcome>>
\* handle (line 41) is called: getAclRecursive(input.identifier) starts.
Start(c) ==
  /\ c \in active
  /\ pc[c] = "idle"
  /\ \E t \in Ids :
       /\ target' = [target EXCEPT ![c] = t]
       /\ id' = [id EXCEPT ![c] = t]
  /\ recurse' = [recurse EXCEPT ![c] = FALSE]
  /\ pc' = [pc EXCEPT ![c] = "getAcl"]
  /\ UNCHANGED <<world, active, data, store, aclTarget, credentials, permissions,
                 calls, evaluated, outcome>>

\* Line 120: await aclManager.getAcl(id).
GetAcl(c) ==
  /\ pc[c] = "getAcl"
  /\ \E r \in {Ok} \cup Errors :
       /\ Logged(c, "getAcl", r)
       /\ IF r = Ok
          THEN /\ pc' = [pc EXCEPT ![c] = "getRepresentation"]
               /\ UNCHANGED <<id, recurse, outcome>>
          ELSE Caught(c, r)
  /\ UNCHANGED <<world, active, target, data, store, aclTarget, credentials,
                 permissions, evaluated>>

\* Line 122: await resourceStore.getRepresentation(acl, ...).
\* It answers r, with the quads of doc as data when r is Ok.
GetRepresentationOf(c, r, doc) ==
  /\ pc[c] = "getRepresentation"
  /\ Logged(c, "getRepresentation", r)
  /\ IF r = Ok
     THEN /\ data' = [data EXCEPT ![c] = doc]
          /\ pc' = [pc EXCEPT ![c] = "filterData"]
          /\ UNCHANGED <<id, recurse, outcome>>
     ELSE /\ Caught(c, r)
          /\ UNCHANGED data
  /\ UNCHANGED <<world, active, target, store, aclTarget, credentials,
                 permissions, evaluated>>
GetRepresentation(c) ==
  /\ pc[c] = "getRepresentation"
  /\ \/ \E doc \in Documents : GetRepresentationOf(c, Ok, doc)
     \/ \E r \in Errors : GetRepresentationOf(c, r, {})

\* Variant: line 124 awaits filterData, so the catch block sees its rejection.
ReturnedRejectionAwaited(c, error) == Caught(c, error)
\* Line 124 returns the promise of filterData without awaiting it: its
\* rejection is not seen by the catch block of line 125.
ReturnedRejection(c, error) == Throws(c, error)

\* Variant: the Store filterData fills is a member of the authorizer, one
\* for all checks.
FilterDataSharedStore(c) ==
  /\ pc[c] = "filterData"
  /\ \E r \in {Ok} \cup Errors :
       /\ Logged(c, "import", r)
       /\ IF r = Ok
          THEN /\ store' = [d \in Checks |->
                              filterData(data[c], ScopePredicate(recurse[c]), id[c])]
               /\ pc' = [pc EXCEPT ![c] = "isAcl"]
               /\ UNCHANGED <<id, recurse, outcome>>
          ELSE /\ ReturnedRejection(c, r)
               /\ UNCHANGED store
  /\ data' = [data EXCEPT ![c] = {}]
  /\ UNCHANGED <<world, active, target, aclTarget, credentials, permissions, evaluated>>
\* Lines 124 and 152-164: the stream of the representation is imported and
\* filtered; the import ends or fails.
FilterData(c) ==
  /\ pc[c] = "filterData"
  /\ \E r \in {Ok} \cup Errors :
       /\ Logged(c, "import", r)
       /\ IF r = Ok
          THEN /\ store' = [store EXCEPT ![c] =
                              filterData(data[c], ScopePredicate(recurse[c]), id[c])]
               /\ pc' = [pc EXCEPT ![c] = "isAcl"]
               /\ UNCHANGED <<id, recurse, outcome>>
          ELSE /\ ReturnedRejection(c, r)
               /\ UNCHANGED store
  /\ data' = [data EXCEPT ![c] = {}]
  /\ UNCHANGED <<world, active, target, aclTarget, credentials, permissions, evaluated>>

\* Line 43: await aclManager.isAcl(input.identifier).
IsAcl(c) ==
  /\ pc[c] = "isAcl"
  /\ \E b \in BOOLEAN : aclTarget' = [aclTarget EXCEPT ![c] = b]
  /\ calls' = [calls EXCEPT ![c] = Append(@, Call("isAcl", target[c], FALSE, Ok))]
  /\ pc' = [pc EXCEPT ![c] = "checkPermission"]
  /\ UNCHANGED <<world, active, target, id, recurse, data, store, credentials,
                 permissions, evaluated, outcome>>

\* Lines 43-51: the modes are checked, synchronously, and handle returns or
\* throws.
CheckPermissions(c) ==
  /\ pc[c] = "checkPermission"
  /\ \E agent \in CredentialsSet, perms \in PermissionSets :
       LET run == checkModes(aclTarget[c], perms, agent, store[c])
       IN /\ credentials' = [credentials EXCEPT ![c] = agent]
          /\ permissions' = [permissions EXCEPT ![c] = perms]
          /\ evaluated' = [evaluated EXCEPT ![c] = run.evaluated]
          /\ Ends(c, IF run.result = Ok
                     THEN Success
                     ELSE Denial(run.result, run.evaluated[Len(run.evaluated)]))
  /\ UNCHANGED <<world, active, target, id, recurse, data, store, aclTarget, calls>>

\* No check has started.
InitChecks ==
  /\ pc = [c \in Checks |-> "idle"]
  /\ target = [c \in Checks |-> Root]
  /\ id = [c \in Checks |-> Root]
  /\ recurse = [c \in Checks |-> FALSE]
  /\ data = [c \in Checks |-> {}]
  /\ store = [c \in Checks |-> {}]
  /\ aclTarget = [c \in Checks |-> FALSE]
  /\ credentials = [c \in Checks |-> [webID |-> Undefined]]
  /\ permissions = [c \in Checks |-> [k \in KeySet |-> FALSE]]
  /\ calls = [c \in Checks |-> <<>>]
  /\ evaluated = [c \in Checks |-> <<>>]
  /\ outcome = [c \in Checks |-> NoOutcome]

\* One check; the collaborators answer each call freely (the ACL state may
\* change between two calls), world is not consulted.
Init ==
  /\ world = NoAcls
  /\ active = {1}
  /\ InitChecks

Next ==
  \E c \in Checks :
    \/ Start(c)
    \/ GetAcl(c)
    \/ GetRepresentation(c)
    \/ FilterData(c)
    \/ IsAcl(c)
    \/ CheckPermissions(c)

Spec == Init /\ [][Next]_vars

\* ------------------------------------- checks over an unchanging ACL state
\* The call check c makes in this step is answered with r.
Answered(c, r) == calls'[c][Len(calls'[c])].result = r
\* The requests made of the concurrent checks.
ConcRequests ==
  {<<[webID |-> Undefined], [k \in KeySet |-> k = "read"]>>,
   <<[webID |-> <<"https://example.org/alice">>], [k \in KeySet |-> k = "read"]>>,
   <<[webID |-> <<"https://example.org/alice">>], [k \in KeySet |-> k = "control"]>>}
GetAclStable(c) == GetAcl(c) /\ Answered(c, world.acl[id[c]].getAcl)
GetRepresentationStable(c) ==
  GetRepresentationOf(c, world.acl[id[c]].getRepresentation, world.acl[id[c]].data)
FilterDataStable(c) == FilterData(c) /\ Answered(c, world.acl[id[c]].import)
IsAclStable(c) == IsAcl(c) /\ aclTarget'[c] = world.isAcl
CheckPermissionsStable(c) ==
  /\ CheckPermissions(c)
  /\ <<credentials'[c], permissions'[c]>> \in ConcRequests

\* Every check is issued, over one ACL state.
InitConc ==
  /\ world \in Worlds
  /\ active = Checks
  /\ InitChecks

\* The checks interleave at their awaits.
NextConc ==
  \E c \in Checks :
    \/ Start(c)
    \/ GetAclStable(c)
    \/ GetRepresentationStable(c)
    \/ FilterDataStable(c)
    \/ IsAclStable(c)
    \/ CheckPermissionsStable(c)

SpecConc == InitConc /\ [][NextConc]_vars

TypeOK ==
  /\ world.isAcl \in BOOLEAN
  /\ DOMAIN world.acl = Ids
  /\ active \subseteq Checks
  /\ \A c \in Checks :
       /\ pc[c] \in {"idle", "getAcl", "getRepresentation", "filterData",
                     "isAcl", "checkPermission", "done"}
       /\ target[c] \in Ids
       /\ id[c] \in Ids
       /\ recurse[c] \in BOOLEAN
       /\ Cardinality(data[c]) <= MaxTriples + 1
       /\ Cardinality(store[c]) <= MaxTriples + 1
       /\ aclTarget[c] \in BOOLEAN
       /\ Len(evaluated[c]) <= Len(PermissionKeys)
       /\ credentials[c] \in CredentialsSet
       /\ permissions[c] \in PermissionSets
\* ----------------------------------------------------------- claim helpers
CallIdx(c) == 1..Len(calls[c])
ResolverOps == {"getAcl", "getRepresentation", "import"}
\* The entry records a fetch of an ACL resource that succeeded.
FetchOk(e) == e.op = "getRepresentation" /\ e.result = Ok
\* The identifier lies on the chain target, parent(target), ..., root.
OnChain(i, t) == Len(i) <= Len(t) /\ i = SubSeq(t, 1, Len(i))
\* handle() ended with an authorization decision (not with an error).
DenialKinds == {"ForbiddenHttpError", "UnauthorizedHttpError"}
Decided(c) == pc[c] = "done" /\ outcome[c].kind \in {"success"} \cup DenialKinds
LastCall(c) == calls[c][Len(calls[c])]

\* ---------------------------------------------------------------------- C1
C1_Walk(c) ==
  \A i \in CallIdx(c) :
    LET e == calls[c][i]
    IN /\ e.op \in ResolverOps => OnChain(e.id, target[c])
       /\ FetchOk(e) =>
            \* nothing but the import of that ACL follows in the resolver
            /\ \A j \in CallIdx(c) :
                 (j > i /\ calls[c][j].op \in ResolverOps) =>
                   (calls[c][j].op = "import" /\ calls[c][j].id = e.id)
            \* every nearer identifier of the chain was probed and not found
            /\ \A k \in Ids :
                 (OnChain(k, target[c]) /\ Len(k) > Len(e.id)) =>
                   \E j \in 1..(i - 1) :
                     /\ calls[c][j].id = k
                     /\ calls[c][j].op \in {"getAcl", "getRepresentation"}
                     /\ calls[c][j].result = NotFoundHttpError
C1_OneAcl(c) ==
  (pc[c] \in {"isAcl", "checkPermission"} \/ Decided(c)) =>
    Cardinality({i \in CallIdx(c) : FetchOk(calls[c][i])}) = 1
C1_Step(c) ==
  /\ (data'[c] # data[c] /\ data'[c] # {}) =>
       /\ FetchOk(calls'[c][Len(calls'[c])])
       /\ calls'[c][Len(calls'[c])].id = id[c]
  /\ store'[c] # store[c] =>
       /\ pc[c] = "filterData"
       /\ FetchOk(LastCall(c)) /\ LastCall(c).id = id[c]
       /\ store'[c] \subseteq data[c]
\* C1: the triples a decision uses come from exactly one ACL resource, the ACL
\* of the nearest identifier on the chain target..root whose fetch succeeds;
\* once a fetch has succeeded no ACL of a more distant ancestor is located,
\* fetched or read in that check.
C1_NearestAclOnly ==
  /\ [](\A c \in Checks : C1_Walk(c) /\ C1_OneAcl(c))
  /\ [][\A c \in Checks : C1_Step(c)]_vars
\* A decision made on the ACL of an ancestor, found after a nearer level was
\* not found.
C1_Witness ==
  \E c \in Checks :
    /\ Decided(c) /\ store[c] # {}
    /\ \E i \in CallIdx(c) :
         /\ FetchOk(calls[c][i]) /\ calls[c][i].id # target[c]
         /\ \E j \in 1..(i - 1) : calls[c][j].result = NotFoundHttpError
\* ---------------------------------------------------------------------- C2
\* The statements of the authorization entities (subjects) of a document that
\* carry the statement (predicate, object).
EntitiesWith(quads, predicate, object) ==
  {q \in quads : \E m \in quads : /\ m.subject = q.subject
                                  /\ m.predicate = predicate
                                  /\ m.object = object}
C2_Step(c) ==
  (pc[c] = "filterData" /\ pc'[c] = "isAcl") =>
    IF id[c] = target[c]
    THEN store'[c] = EntitiesWith(data[c], ACL_accessTo, target[c])
    ELSE store'[c] = EntitiesWith(data[c], ACL_default, id[c])
C2_Flag(c) ==
  /\ pc[c] \in {"getAcl", "getRepresentation", "filterData"} =>
       (recurse[c] <=> id[c] # target[c])
  /\ \A i \in CallIdx(c) :
       calls[c][i].op \in ResolverOps =>
         (calls[c][i].recurse <=> calls[c][i].id # target[c])
\* C2: an ACL found by the first probe (for exactly the target) selects the
\* entities with an accessTo statement for the target and no other, also when
\* it carries default statements; a probe of an ancestor, and so every probe
\* after the first, selects by the default relation for the probed container.
C2_DirectThenDefault ==
  /\ [](\A c \in Checks : C2_Flag(c))
  /\ [][\A c \in Checks : C2_Step(c)]_vars
\* The target's own ACL was found and the selected entity also carries a
\* default statement.
C2_Witness ==
  \E c \in Checks :
    /\ pc[c] = "isAcl" /\ id[c] = target[c] /\ ~recurse[c]
    /\ \E q \in store[c] : q.predicate = ACL_default
    /\ \E q \in store[c] : q.predicate = ACL_accessTo /\ q.object = target[c]
\* ------------------------------------------------- grants, as the claims state them
Quad(s, p, o) == [subject |-> s, predicate |-> p, object |-> o]
ModeIri == [read |-> <<"acl:Read">>, write |-> <<"acl:Write">>,
            append |-> <<"acl:Append">>, control |-> <<"acl:Control">>]
\* Some single subject carries the mode statement and a statement granting
\* the agent: public, authenticated agent (with a webID), or the exact agent.
Grants(quads, agent, mode) ==
  \E s \in {q.subject : q \in quads} :
    /\ Quad(s, ACL_mode, ModeIri[mode]) \in quads
    /\ \/ Quad(s, ACL_agentClass, FOAF_Agent) \in quads
       \/ /\ Quad(s, ACL_agentClass, ACL_AuthenticatedAgent) \in quads
          /\ agent.webID \in WebIDs
       \/ \E w \in WebIDs : w = agent.webID /\ Quad(s, ACL_agent, w) \in quads
Anonymous(agent) == agent.webID = Undefined
Requested(perms) == {k \in KeySet : perms[k]}
Only(mode) == [k \in KeySet |-> k = mode]

\* ---------------------------------------------------------------------- C3
\* C3: when isAcl answers true for the target, handle calls checkPermission
\* for control and for nothing else, and it succeeds iff control is granted by
\* the resolved triples, whatever input.permissions holds.
C3_AclTargetControlOnly ==
  \A c \in Checks :
    (pc[c] = "done" /\ aclTarget[c]) =>
      /\ evaluated[c] = <<"control">>
      /\ outcome[c].kind = "success" <=> Grants(store[c], credentials[c], "control")
      /\ outcome[c].kind # "success" =>
           (outcome[c].kind \in DenialKinds /\ outcome[c].mode = "control")
\* An ACL target requested for read only, where read is not granted: the check
\* succeeds on control.
C3_Witness ==
  \E c \in Checks :
    /\ pc[c] = "done" /\ aclTarget[c]
    /\ permissions[c] = Only("read")
    /\ ~Grants(store[c], credentials[c], "read")
    /\ outcome[c] = Success

\* ---------------------------------------------------------------------- C4
\* C4: on every store a check resolves, isModeGranted is true exactly when a
\* single subject carries the mode and a public, authenticated-agent (for
\* credentials with a webID) or exact-agent grant; and the modes a check
\* passed were granted, the mode it was denied for was not.
C4_IsModeGranted ==
  \A c \in Checks :
    /\ pc[c] \in {"checkPermission", "done"} =>
         \A agent \in CredentialsSet, m \in KeySet :
           isModeGranted(store[c], agent, m) <=> Grants(store[c], agent, m)
    /\ Decided(c) =>
         \A i \in 1..Len(evaluated[c]) :
           Grants(store[c], credentials[c], evaluated[c][i])
             <=> (i < Len(evaluated[c]) \/ outcome[c] = Success)
\* An anonymous request denied for a mode that an authenticated-agent grant
\* lists.
C4_Witness ==
  \E c \in Checks :
    /\ Decided(c) /\ Anonymous(credentials[c])
    /\ outcome[c].kind = "UnauthorizedHttpError"
    /\ \E s \in Subjects :
         /\ Quad(s, ACL_agentClass, ACL_AuthenticatedAgent) \in store[c]
         /\ Quad(s, ACL_mode, ModeIri[outcome[c].mode]) \in store[c]

\* ---------------------------------------------------------------------- C5
\* C5: a denial is UnauthorizedHttpError exactly when the credentials carry no
\* webID and ForbiddenHttpError exactly when they carry one, for any target
\* (ACL resource or not) and mode.
C5_DenialKind ==
  \A c \in Checks :
    (pc[c] = "done" /\ outcome[c].kind \in DenialKinds) =>
      /\ outcome[c].kind = "UnauthorizedHttpError" <=> Anonymous(credentials[c])
      /\ outcome[c].kind = "ForbiddenHttpError" <=> credentials[c].webID \in WebIDs
\* A known agent is refused control of an ACL resource.
C5_Witness ==
  \E c \in Checks :
    /\ pc[c] = "done" /\ aclTarget[c]
    /\ credentials[c].webID \in WebIDs
    /\ outcome[c] = Denial("ForbiddenHttpError", "control")

\* ---------------------------------------------------------------------- C6
\* C6: an error other than not-found from locating, fetching or reading an
\* ACL, at any level, is the last call of the check and its outcome: no
\* further probe, no mode evaluated, no decision.
C6_InfrastructureErrorPropagates ==
  \A c \in Checks :
    \A i \in CallIdx(c) :
      LET e == calls[c][i]
      IN (e.op \in ResolverOps /\ e.result \in Errors \ {NotFoundHttpError}) =>
           /\ i = Len(calls[c])
           /\ pc[c] = "done"
           /\ outcome[c] = Failure(e.result)
           /\ evaluated[c] = <<>>
\* The fetch of an ancestor's ACL fails with an internal error after a nearer
\* level was not found.
C6_Witness ==
  \E c \in Checks :
    /\ pc[c] = "done" /\ Len(calls[c]) >= 3
    /\ LastCall(c).recurse /\ LastCall(c).op = "getRepresentation"
    /\ LastCall(c).result = "InternalServerError"
    /\ outcome[c] = Failure("InternalServerError")

\* ---------------------------------------------------------------------- C7
\* Every identifier of the chain target..root was probed and not found.
AllNotFound(c) ==
  \A k \in Ids :
    OnChain(k, target[c]) =>
      \E i \in CallIdx(c) :
        /\ calls[c][i].id = k
        /\ calls[c][i].op \in {"getAcl", "getRepresentation"}
        /\ calls[c][i].result = NotFoundHttpError
\* C7: when no ACL is found up to and including the root, resolution yields
\* the empty authorization set and the check ends in a denial.
C7_NoAclDenies ==
  \A c \in Checks :
    (AllNotFound(c) /\ pc[c] = "done") =>
      (store[c] = {} /\ outcome[c].kind \in DenialKinds)
\* ---------------------------------------------------------------------- C8
\* Reading an ancestor's ACL keeps every statement of each entity with a
\* default statement for that container, and nothing of any other entity.
C8_Step(c) ==
  (pc[c] = "filterData" /\ pc'[c] = "isAcl" /\ id[c] # target[c]) =>
    \A s \in {q.subject : q \in data[c]} :
      IF Quad(s, ACL_default, id[c]) \in data[c]
      THEN \A q \in data[c] : q.subject = s => q \in store'[c]
      ELSE \A q \in store'[c] : q.subject # s
\* The entity of the resolved ACL grants the mode to everyone by default scope
\* for the container the ACL was found at.
PublicDefault(c, mode) ==
  \E s \in {q.subject : q \in store[c]} :
    /\ Quad(s, ACL_default, id[c]) \in store[c]
    /\ Quad(s, ACL_mode, ModeIri[mode]) \in store[c]
    /\ Quad(s, ACL_agentClass, FOAF_Agent) \in store[c]
C8_Final(c) ==
  (Decided(c) /\ ~aclTarget[c] /\ id[c] # target[c]) =>
    \A m \in KeySet :
      permissions[c] = Only(m) =>
        /\ PublicDefault(c, m) => outcome[c] = Success
        /\ (/\ Anonymous(credentials[c])
            /\ ~\E q \in store[c] : q.predicate = ACL_mode /\ q.object = ModeIri[m])
             => outcome[c] = Denial("UnauthorizedHttpError", m)
\* C8: for a target that is not an ACL resource, with no ACL of its own nor
\* at the intermediate ancestors, an entity of the nearest ancestor's ACL with
\* a default statement for that ancestor, mode M and a public grant makes a
\* request for M succeed for any credentials; an anonymous request for a mode
\* no default-scoped entity of that ACL lists fails as UnauthorizedHttpError.
C8_Inheritance ==
  /\ [](\A c \in Checks : C8_Final(c))
  /\ [][\A c \in Checks : C8_Step(c)]_vars
\* The scenario of the specification: the ACL is found two levels above the
\* target and grants read to everyone by default; an anonymous read succeeds.
C8_Witness ==
  \E c \in Checks :
    /\ Decided(c) /\ ~aclTarget[c]
    /\ Len(target[c]) >= Len(id[c]) + 2
    /\ Anonymous(credentials[c])
    /\ permissions[c] = Only("read")
    /\ PublicDefault(c, "read")
    /\ outcome[c] = Success

\* ---------------------------------------------------------------------- C9
\* C9: for a target that is not an ACL resource whose ACL resolution succeeds,
\* the check succeeds iff every requested mode is granted by the resolved
\* triples; a mode that is not requested is not evaluated and is not the
\* mode of a denial; with no mode requested the check succeeds.
C9_AllOrNothing ==
  \A c \in Checks :
    (Decided(c) /\ ~aclTarget[c]) =>
      /\ outcome[c] = Success <=>
           \A m \in Requested(permissions[c]) : Grants(store[c], credentials[c], m)
      /\ \A i \in 1..Len(evaluated[c]) : permissions[c][evaluated[c][i]]
      /\ outcome[c].kind \in DenialKinds => permissions[c][outcome[c].mode]
      /\ Requested(permissions[c]) = {} => outcome[c] = Success
\* A request for two modes of which one is granted and the other is not is
\* denied.
C9_Witness ==
  \E c \in Checks :
    /\ Decided(c) /\ ~aclTarget[c]
    /\ outcome[c].kind \in DenialKinds
    /\ \E m1, m2 \in Requested(permissions[c]) :
         /\ Grants(store[c], credentials[c], m1)
         /\ ~Grants(store[c], credentials[c], m2)

\* --------------------------------------------------------------------- C10
DeclaredOrder == <<"read", "write", "append", "control">>
RequestedInOrder(perms) ==
  LET IsRequested(k) == perms[k] IN SelectSeq(DeclaredOrder, IsRequested)
RECURSIVE Orderings(_)
Orderings(S) ==
  IF S = {} THEN {<<>>}
  ELSE UNION {{<<x>> \o rest : rest \in Orderings(S \ {x})} : x \in S}
Patterns == {<<q.predicate, q.object>> : q \in Quads}
C12_Selects(quads, predicate, object, result) ==
  LET matched == {q.subject : q \in {x \in quads : x.predicate = predicate
                                                    /\ x.object = object}}
  IN /\ result \subseteq quads
     /\ \A q \in quads : q.subject \in matched => q \in result
     /\ \A q \in result : q.subject \in matched
     /\ matched = {} => result = {}
C12_Pure(c) ==
  pc[c] = "filterData" =>
    /\ \A po \in Patterns :
         C12_Selects(data[c], po[1], po[2], filterData(data[c], po[1], po[2]))
    /\ \A stream \in Orderings(data[c]) :
         filterData(importStream(stream), ScopePredicate(recurse[c]), id[c])
           = filterData(data[c], ScopePredicate(recurse[c]), id[c])
C12_Step(c) ==
  (pc[c] = "filterData" /\ pc'[c] = "isAcl") =>
    C12_Selects(data[c], ScopePredicate(recurse[c]), id[c], store'[c])
\* C12: filterData returns exactly the statements whose subject has a
\* statement with the given predicate and object: a subset of the input, with
\* every statement of each matched subject and none of an unmatched one, empty
\* when nothing matches, and the same for every order of the input.
C12_SelectBySubjectMatch ==
  /\ [](\A c \in Checks : C12_Pure(c))
  /\ [][\A c \in Checks : C12_Step(c)]_vars
\* An entity was selected together with a statement of it that is not the
\* matching one.
C12_Witness ==
  \E c \in Checks :
    /\ pc[c] = "isAcl" /\ LastCall(c).op = "import"
    /\ \E q1, q2 \in store[c] :
         /\ q1.subject = q2.subject
         /\ q1.predicate = ScopePredicate(recurse[c]) /\ q1.object = id[c]
         /\ q2.predicate \in {ACL_mode, ACL_agent, ACL_agentClass}
\* --------------------------------------------------------------------- C13
FetchIdx(c) == {i \in CallIdx(c) : calls[c][i].op = "getRepresentation"}
LocateIdx(c) == {i \in CallIdx(c) : calls[c][i].op = "getAcl"}
C13_Walk(c) ==
  \* a level is located and fetched at most once, and later calls are higher up
  /\ \A i, j \in CallIdx(c) :
       (/\ i < j
        /\ calls[c][i].op \in {"getAcl", "getRepresentation"}
        /\ calls[c][j].op = calls[c][i].op) =>
         Len(calls[c][j].id) < Len(calls[c][i].id)
  \* the walk starts at the target and climbs one container at a time
  /\ \A i \in LocateIdx(c) :
       IF \E j \in LocateIdx(c) : j < i
       THEN \E j \in LocateIdx(c) :
              j < i /\ calls[c][i].id = getParentContainer(calls[c][j].id)
       ELSE calls[c][i].id = target[c]
  /\ \A i \in FetchIdx(c) :
       i > 1 /\ calls[c][i - 1].op = "getAcl" /\ calls[c][i - 1].id = calls[c][i].id
  \* no more fetches than identifiers on the chain target..root
  /\ Cardinality(FetchIdx(c)) <= Len(target[c])
C13_Step(c) ==
  pc[c] \in {"isAcl", "checkPermission"} =>
    {i \in 1..Len(calls'[c]) : calls'[c][i].op \in ResolverOps}
      = {i \in CallIdx(c) : calls[c][i].op \in ResolverOps}
\* C13: one check resolves the ACL once, however many modes are requested:
\* each level is fetched at most once, the levels are probed strictly upward
\* from the target, there are at most as many fetches as identifiers on the
\* chain, and evaluating the modes makes no further resolver call.
C13_ResolvedOnce ==
  /\ [](\A c \in Checks : C13_Walk(c))
  /\ [][\A c \in Checks : C13_Step(c)]_vars
\* Two modes were evaluated after a walk that fetched at every level of a
\* chain of three identifiers.
C13_Witness ==
  \E c \in Checks :
    /\ Decided(c) /\ Len(evaluated[c]) >= 2
    /\ Len(target[c]) >= 3
    /\ Cardinality(FetchIdx(c)) = Len(target[c])
\* --------------------------------------------------------------------- C14
\* C14: a not-found raised while locating or fetching the ACL at a level is
\* never the outcome of the check; it is absorbed and the next step is a
\* probe, in default mode, of the parent container of the identifier that was
\* just probed.
C14_NotFoundAbsorbed ==
  \A c \in Checks :
    /\ outcome[c].kind # NotFoundHttpError
    /\ \A i \in CallIdx(c) :
         (/\ calls[c][i].op \in {"getAcl", "getRepresentation"}
          /\ calls[c][i].result = NotFoundHttpError) =>
           IF i < Len(calls[c])
           THEN /\ calls[c][i + 1].op = "getAcl"
                /\ calls[c][i + 1].id = getParentContainer(calls[c][i].id)
                /\ calls[c][i + 1].recurse
           ELSE /\ pc[c] = "getAcl"
                /\ id[c] = getParentContainer(calls[c][i].id)
                /\ recurse[c]
\* --------------------------------------------------------------------- C15
\* The relation by which the ACL the check resolved applies to the target.
ScopeOf(c) == IF id[c] = target[c] THEN ACL_accessTo ELSE ACL_default
GrantsTo(quads, s, agent) ==
  \/ Quad(s, ACL_agentClass, FOAF_Agent) \in quads
  \/ agent.webID \in WebIDs /\ Quad(s, ACL_agentClass, ACL_AuthenticatedAgent) \in quads
  \/ agent.webID \in WebIDs /\ Quad(s, ACL_agent, agent.webID) \in quads
SingleEntityGrants(c, mode) ==
  \E s \in {q.subject : q \in store[c]} :
    /\ Quad(s, ScopeOf(c), id[c]) \in store[c]
    /\ Quad(s, ACL_mode, ModeIri[mode]) \in store[c]
    /\ GrantsTo(store[c], s, credentials[c])
C15_Final(c) ==
  Decided(c) =>
    \A i \in 1..Len(evaluated[c]) :
      (i < Len(evaluated[c]) \/ outcome[c] = Success) =>
        SingleEntityGrants(c, evaluated[c][i])
C15_Step(c) ==
  (pc[c] = "filterData" /\ pc'[c] = "isAcl") =>
    \A q \in store'[c] :
      q \in data[c] /\ Quad(q.subject, ScopeOf(c), id[c]) \in data[c]
\* C15: a mode passes a check only if one single subject of the governing ACL
\* carries the scope statement for the probed identifier (accessTo on the
\* direct probe, default on an ancestor probe), the mode statement and a grant
\* matching the credentials; statements of different subjects are not
\* combined and an entity scoped to another resource grants nothing.
C15_SingleEntity ==
  /\ [](\A c \in Checks : C15_Final(c))
  /\ [][\A c \in Checks : C15_Step(c)]_vars
\* A denial although one selected entity lists the mode and another selected
\* entity grants the agent.
C15_Witness ==
  \E c \in Checks :
    /\ Decided(c) /\ outcome[c].kind \in DenialKinds
    /\ \E s1, s2 \in Subjects :
         /\ s1 # s2
         /\ Quad(s1, ACL_mode, ModeIri[outcome[c].mode]) \in store[c]
         /\ GrantsTo(store[c], s2, credentials[c])
\* --------------------------------------------------------------------- C16
IsAclIdx(c) == {i \in CallIdx(c) : calls[c][i].op = "isAcl"}
\* The statement as claimed: the isAcl call precedes the first ACL fetch.
C16_IsAclBeforeFetch ==
  \A c \in Checks :
    \A i \in CallIdx(c) :
      calls[c][i].op = "getRepresentation" =>
        \E j \in IsAclIdx(c) : j < i
C16_Order(c) ==
  /\ Cardinality(IsAclIdx(c)) <= 1
  /\ \A i \in IsAclIdx(c) :
       /\ i = Len(calls[c])
       /\ i > 1
       /\ calls[c][i - 1].op = "import" /\ calls[c][i - 1].result = Ok
       /\ calls[c][i].id = target[c]
       /\ pc[c] \in {"checkPermission", "done"}
  /\ pc[c] = "checkPermission" => IsAclIdx(c) # {}
  /\ Decided(c) => IsAclIdx(c) # {}
  /\ (pc[c] = "done" /\ ~Decided(c)) => IsAclIdx(c) = {}
\* C16 (amended): handle first resolves the applicable ACL triples and only
\* then asks isAcl for the target: the single isAcl call follows the
\* successful import of the fetched ACL document, is the last call of the
\* check, precedes every mode evaluation, and is never made when the
\* resolution ends with an error.
C16_ResolveThenIsAcl == \A c \in Checks : C16_Order(c)
\* A decided check whose log holds a failed probe, a fetch and then isAcl.
C16_Witness ==
  \E c \in Checks :
    /\ Decided(c)
    /\ Len(calls[c]) >= 5
    /\ LastCall(c).op = "isAcl"
    /\ \E i \in CallIdx(c) : FetchOk(calls[c][i])
\* --------------------------------------------------------------------- C11
\* getAclRecursive (lines 117-137) run alone over the ACL state w: the error
\* it throws, or Ok and the store it returns.
RECURSIVE getAclRecursiveAlone(_, _, _)
getAclRecursiveAlone(w, i, rec) ==
  LET a == w.acl[i]
      parent == IF IsRoot(i)
                THEN [error |-> RootReachedError, store |-> {}]
                ELSE getAclRecursiveAlone(w, getParentContainer(i), TRUE)
  IN IF a.getAcl # Ok
     THEN IF a.getAcl = NotFoundHttpError THEN parent
          ELSE [error |-> a.getAcl, store |-> {}]
     ELSE IF a.getRepresentation # Ok
     THEN IF a.getRepresentation = NotFoundHttpError THEN parent
          ELSE [error |-> a.getRepresentation, store |-> {}]
     ELSE IF a.import # Ok
     THEN [error |-> a.import, store |-> {}]
     ELSE [error |-> Ok, store |-> filterData(a.data, ScopePredicate(rec), i)]
\* handle (lines 41-52) run alone over the ACL state w.
handleAlone(w, t, agent, perms) ==
  LET acl == getAclRecursiveAlone(w, t, FALSE)
      run == checkModes(w.isAcl, perms, agent, acl.store)
  IN IF acl.error # Ok THEN Failure(acl.error)
     ELSE IF run.result = Ok THEN Success
     ELSE Denial(run.result, run.evaluated[Len(run.evaluated)])
C11_AsAlone(c) ==
  LET acl == getAclRecursiveAlone(world, target[c], FALSE)
  IN /\ pc[c] \in {"isAcl", "checkPermission"} =>
          acl.error = Ok /\ store[c] = acl.store
     /\ (pc[c] = "done" /\ ~Decided(c)) => outcome[c] = Failure(acl.error)
     /\ Decided(c) =>
          /\ store[c] = acl.store
          /\ outcome[c] = handleAlone(world, target[c], credentials[c], permissions[c])
\* The step is a step of one check and changes nothing of the other checks.
C11_Local ==
  /\ world' = world
  /\ \E c \in Checks :
       \A d \in Checks \ {c} :
         /\ pc'[d] = pc[d] /\ target'[d] = target[d] /\ id'[d] = id[d]
         /\ recurse'[d] = recurse[d] /\ data'[d] = data[d] /\ store'[d] = store[d]
         /\ aclTarget'[d] = aclTarget[d] /\ credentials'[d] = credentials[d]
         /\ permissions'[d] = permissions[d] /\ calls'[d] = calls[d]
         /\ evaluated'[d] = evaluated[d] /\ outcome'[d] = outcome[d]
\* C11: checks interleaved at their awaits over an ACL state that does not
\* change each end as the same check does when run alone over that state
\* (same store resolved, same outcome), and a step of one check changes no
\* state of another check.
C11_Independent ==
  /\ [](\A c \in Checks : C11_AsAlone(c))
  /\ [][C11_Local]_vars
\* Two checks of different targets over the same ACL state have both ended,
\* one with success on a resolved authorization and the other otherwise.
C11_Witness ==
  \E c, d \in Checks :
    /\ c # d
    /\ target[c] # target[d]
    /\ Decided(c) /\ outcome[c] = Success /\ store[c] # {}
    /\ pc[d] = "done" /\ outcome[d] # Success
    /\ Len(calls[d]) >= 2
====
